---- MODULE Spec2Model ----
(***************************************************************************)
(* sjw: a bridge from systemd (over D-Bus) to a WAMP router.               *)
(* Model of src/sjw/app.py: the WAMPApplication session handling and the   *)
(* App mirror (units, units_path, properties), its start-up coroutine and  *)
(* its six remote procedures.  Every coroutine is modelled at the          *)
(* granularity of its await points: one action per bus round trip, which   *)
(* also executes the synchronous code up to the next await.                *)
(***************************************************************************)
EXTENDS Integers, Sequences, FiniteSets, TLC

\* Number of remote calls that may be in flight at once.
MaxCalls == 1
\* Longest argument list of a query(*unit_keys) call.
MaxArgs == 2
\* Remote calls in flight at once in the specification of concurrent calls.
ConcurrentCalls == 2

(***************************************************************************)
(* Configuration: config['units'], an ordered mapping key -> service name. *)
(***************************************************************************)
KeyOrder == <<"a", "b">>
Keys == {KeyOrder[n] : n \in 1..Len(KeyOrder)}
units_name == [k \in Keys |-> k \o ".service"]
\* Keys a remote caller may pass: the catalog's keys and one unknown key.
ArgKeys == Keys \cup {"zz"}
QueryArgs == UNION {[1..n -> ArgKeys] : n \in 0..MaxArgs}
ControlOps == {"start", "stop", "enable", "disable"}

None == "None"
EmptyDict == [x \in {} |-> x]
Put(f, k, v) == [x \in DOMAIN f \cup {k} |-> IF x = k THEN v ELSE f[x]]
Update_torn(p, d) ==
    [n \in DOMAIN p \cup DOMAIN d |->
       IF n \in DOMAIN d /\ (n # "SubState" \/ n \notin DOMAIN p) THEN d[n] ELSE p[n]]

\* dict.update: overwrite on collision, keep the rest.
Update(p, d) == [n \in DOMAIN p \cup DOMAIN d |-> IF n \in DOMAIN d THEN d[n] ELSE p[n]]

(***************************************************************************)
(* The service manager (systemd), seen through the bus.                    *)
(***************************************************************************)
\* LoadUnit: object path of a unit name.
PathOf(name) == "/org/freedesktop/systemd1/unit/" \o name
UnitAt(path) == CHOOSE k \in Keys : PathOf(units_name[k]) = path
InitialProps(k) ==
    [Id |-> units_name[k], Description |-> "desc", ActiveState |-> "inactive",
     SubState |-> "dead", UnitFileState |-> "disabled"]
\* State changes the manager may make to a unit.
SysDeltas ==
    {[ActiveState |-> "active", SubState |-> "running"],
     [ActiveState |-> "inactive", SubState |-> "dead"]}
\* Payloads a PropertiesChanged signal may carry.
Deltas == SysDeltas \cup {[Id |-> "alias.service"]}
\* Replies of StartUnit/StopUnit (a job path) and Enable/DisableUnitFiles.
Replies == {"job1", "job2"}

VARIABLES
    task,           \* coroutines: 0 is main_loop, 1..MaxCalls are remote calls
    units,          \* App.units: key -> Unit
    units_path,     \* App.units_path: key -> object path
    properties,     \* App.properties: key -> property map
    unit_key,       \* the loop variable of subscribe_props_units (closure cell)
    subscribed,     \* object paths with a PropertiesChanged callback
    wamp_session,   \* WAMPApplication.wamp_session
    sys,            \* the manager's unit properties
    mgr_subscribed, \* the manager-level Subscribe call has completed
    wamp_started,   \* wamp_comp.start was called
    attached,       \* the router's view: between a join and the next leave
    missed,         \* a signal was dropped since the latest leave (or the start)
    ev,             \* what the latest step made observable (publication, reply)
    qhist           \* replies of the latest undisturbed query() calls

vars == <<task, units, units_path, properties, unit_key, subscribed, wamp_session,
          sys, mgr_subscribed, wamp_started, attached, missed, ev, qhist>>

mirror == <<units, units_path, properties>>

Calls == 1..MaxCalls
Idle ==
    [op |-> "idle", proc |-> "idle", pc |-> "idle", args |-> <<>>, keys |-> <<>>,
     i |-> 0, result |-> None, mgr |-> None, calls |-> <<>>, clean |-> FALSE,
     reply |-> <<>>]
NoEvent == [type |-> "none"]

\* The state after construction, with n frames for remote calls.
InitCalls(n) ==
    /\ task = [t \in 0..n |->
                 IF t = 0
                 THEN [Idle EXCEPT !.op = "main_loop", !.proc = "main_loop",
                                   !.pc = "connect"]
                 ELSE Idle]
    /\ units = EmptyDict
    /\ units_path = EmptyDict
    /\ properties = EmptyDict
    /\ unit_key = None
    /\ subscribed = {}
    /\ wamp_session = None
    /\ sys = [k \in Keys |-> InitialProps(k)]
    /\ mgr_subscribed = FALSE
    /\ wamp_started = FALSE
    /\ attached = FALSE
    /\ missed = FALSE
    /\ ev = NoEvent
    /\ qhist = <<>>

Init == InitCalls(MaxCalls)

(***************************************************************************)
(* Helpers shared by the coroutines.                                       *)
(***************************************************************************)
\* Iteration order of a dict filled in catalog order.
DictOrder(d) == SelectSeq(KeyOrder, LAMBDA k : k \in DOMAIN d)
Range(s) == {s[n] : n \in 1..Len(s)}
\* The process is alive: react() stops the reactor when main_loop fails.
Running == task[0].pc # "failed"
\* The key the loop of a coroutine is working on.
CurKey(t) == task[t].keys[task[t].i]

Unit_named_by_key(key, props) ==
    [name |-> key, description |-> props.Description,
     active |-> props.ActiveState, sub |-> props.SubState,
     enabled |-> props.UnitFileState]

\* Unit(name=unit_name, description=..., active=..., sub=..., enabled=...)
Unit(key, props) ==
    [name |-> units_name[key], description |-> props.Description,
     active |-> props.ActiveState, sub |-> props.SubState,
     enabled |-> props.UnitFileState]

\* list_units.to_dict
to_dict(unit) ==
    [Name |-> unit.name, Description |-> unit.description,
     ActiveState |-> unit.active, SubState |-> unit.sub,
     UnitFileState |-> unit.enabled]

\* refresh_unit_properties: self.properties[unit_key] = props
StoreProps_setdefault(key, props) ==
    IF key \in DOMAIN properties THEN properties ELSE Put(properties, key, props)

StoreProps(key, props) == Put(properties, key, props)

\* The remote call of task t ends: its reply or error goes to the caller.
\* stored: the keys whose fetch this call completed.  Only a reply has a
\* result; an error has none.
Return(t, tr, outcome, error, result) ==
    /\ task' = [task EXCEPT ![t] = Idle]
    /\ ev' = IF outcome = "ok"
             THEN [type |-> "return", op |-> tr.op, args |-> tr.args,
                   outcome |-> outcome, error |-> error, result |-> result,
                   mgr |-> tr.mgr, calls |-> tr.calls,
                   stored |-> {tr.keys[n] : n \in 1..(tr.i - 1)},
                   key |-> IF tr.i \in 1..Len(tr.keys) THEN tr.keys[tr.i] ELSE None]
             ELSE [type |-> "return", op |-> tr.op, args |-> tr.args,
                   outcome |-> outcome, error |-> error,
                   mgr |-> tr.mgr, calls |-> tr.calls,
                   stored |-> {tr.keys[n] : n \in 1..(tr.i - 1)},
                   key |-> IF tr.i \in 1..Len(tr.keys) THEN tr.keys[tr.i] ELSE None]
    /\ qhist' = IF tr.op = "query" /\ tr.args = <<>> /\ outcome = "ok" /\ tr.clean
                THEN IF qhist = <<>> THEN <<result>>
                     ELSE <<qhist[Len(qhist)], result>>
                ELSE qhist

\* A bus call of task t fails (BusCallFailed): the exception leaves the
\* coroutine, no handler catches it.
Fail(t) ==
    IF t = 0
    THEN /\ task' = [task EXCEPT ![0].pc = "failed"]
         /\ ev' = NoEvent
         /\ qhist' = qhist
    ELSE Return(t, task[t], "error", "BusCallFailed", None)

(***************************************************************************)
(* main_loop: connect, Subscribe, refresh_units, refresh_unit_properties,  *)
(* subscribe_props_units, wamp.start -- each awaited before the next.      *)
(***************************************************************************)
main_loop_order_populate_first ==
    <<"refresh_units", "Subscribe", "refresh_unit_properties",
      "subscribe_props_units", "wamp_start">>

main_loop_order ==
    <<"Subscribe", "refresh_units", "refresh_unit_properties",
      "subscribe_props_units", "wamp_start">>

StageAfter(stage) ==
    LET n == CHOOSE m \in 1..Len(main_loop_order) : main_loop_order[m] = stage
    IN  main_loop_order[n + 1]

\* main_loop runs into `stage` up to its first await.
MainEnter(stage) ==
    LET M == [Idle EXCEPT !.op = "main_loop"] IN
    /\ task' = [task EXCEPT ![0] =
         CASE stage = "Subscribe" ->
                [M EXCEPT !.proc = "main_loop", !.pc = "Subscribe"]
           [] stage = "refresh_units" ->
                [M EXCEPT !.proc = stage, !.pc = "LoadUnit", !.keys = KeyOrder, !.i = 1]
           [] stage \in {"refresh_unit_properties", "subscribe_props_units"} ->
                [M EXCEPT !.proc = stage, !.pc = "getRemoteObject",
                          !.keys = DictOrder(units_path), !.i = 1]
           [] stage = "wamp_start" ->
                [M EXCEPT !.proc = "main_loop", !.pc = "wamp_start"]]
    /\ unit_key' = IF stage = "subscribe_props_units"
                   THEN DictOrder(units_path)[1] ELSE unit_key
    /\ wamp_started' = (wamp_started \/ stage = "wamp_start")
    /\ ev' = NoEvent
    /\ qhist' = qhist

\* client.connect(reactor, 'session')
connect ==
    /\ task[0].pc = "connect"
    /\ \/ /\ task' = [task EXCEPT ![0].pc = "getRemoteObject"]
          /\ ev' = NoEvent
          /\ qhist' = qhist
       \/ Fail(0)
    /\ UNCHANGED <<mirror, unit_key, subscribed, wamp_session, sys, mgr_subscribed,
                   wamp_started, attached, missed>>

\* connection.getRemoteObject('org.freedesktop.systemd1', '/org/freedesktop/systemd1')
getSystemdObject ==
    /\ task[0].proc = "main_loop" /\ task[0].pc = "getRemoteObject"
    /\ \/ MainEnter(main_loop_order[1])
       \/ Fail(0) /\ UNCHANGED <<unit_key, wamp_started>>
    /\ UNCHANGED <<mirror, subscribed, wamp_session, sys, mgr_subscribed, attached, missed>>

\* systemd_dbus.callRemote('Subscribe')
Subscribe ==
    /\ task[0].pc = "Subscribe"
    /\ \/ /\ mgr_subscribed' = TRUE
          /\ MainEnter(StageAfter("Subscribe"))
       \/ Fail(0) /\ UNCHANGED <<unit_key, wamp_started, mgr_subscribed>>
    /\ UNCHANGED <<mirror, subscribed, wamp_session, sys, attached, missed>>

\* Task t suspends at its next await as tr.
Step(t, tr) ==
    /\ task' = [task EXCEPT ![t] = tr]
    /\ ev' = NoEvent
    /\ qhist' = qhist
    /\ UNCHANGED <<unit_key, wamp_started>>

FailStep(t) == Fail(t) /\ UNCHANGED <<unit_key, wamp_started>>

\* The loop of task t is over: main_loop goes on with its next stage, a remote
\* call returns `result`.
Finish(t, result) ==
    IF t = 0
    THEN MainEnter(StageAfter(task[0].proc))
    ELSE /\ Return(t, [task[t] EXCEPT !.i = Len(task[t].keys) + 1], "ok", None, result)
         /\ UNCHANGED <<unit_key, wamp_started>>

(***************************************************************************)
(* refresh_units (always called without filter_keys): for every catalog    *)
(* entry in order, LoadUnit, getRemoteObject, GetAll, then store.          *)
(***************************************************************************)
\* self.units_path[key] = await systemd_dbus.callRemote('LoadUnit', unit_name)
refresh_units_LoadUnit(t) ==
    /\ Running
    /\ task[t].proc = "refresh_units" /\ task[t].pc = "LoadUnit"
    /\ \/ /\ units_path' = Put(units_path, CurKey(t), PathOf(units_name[CurKey(t)]))
          /\ Step(t, [task[t] EXCEPT !.pc = "getRemoteObject"])
       \/ FailStep(t) /\ UNCHANGED units_path
    /\ UNCHANGED <<units, properties, subscribed, wamp_session, sys, mgr_subscribed,
                   attached, missed>>

\* unit_dbus = await connection.getRemoteObject(..., self.units_path[key])
refresh_units_getRemoteObject(t) ==
    /\ Running
    /\ task[t].proc = "refresh_units" /\ task[t].pc = "getRemoteObject"
    /\ \/ Step(t, [task[t] EXCEPT !.pc = "GetAll"])
       \/ FailStep(t)
    /\ UNCHANGED <<mirror, subscribed, wamp_session, sys, mgr_subscribed, attached, missed>>

\* The manager serves the GetAll call of task t: the reply, on its way to the
\* bridge from now on, holds the unit's properties as they are at this moment.
GetAll_served(t) ==
    /\ Running
    /\ task[t].pc = "GetAll" /\ task[t].reply = <<>>
    /\ task' = [task EXCEPT ![t].reply = <<sys[UnitAt(units_path[CurKey(t)])]>>]
    /\ ev' = NoEvent
    /\ qhist' = qhist
    /\ UNCHANGED <<mirror, unit_key, subscribed, wamp_session, sys, mgr_subscribed,
                   wamp_started, attached, missed>>

\* props = await unit_dbus.callRemote('GetAll', ''); properties[key] = props;
\* units[key] = Unit(...); then the next catalog entry, or the end of the loop
\* (list_units then returns {k: to_dict(v) for k, v in self.units.items()}).
refresh_units_GetAll(t) ==
    /\ Running
    /\ task[t].proc = "refresh_units" /\ task[t].pc = "GetAll"
    /\ \/ LET key == CurKey(t)
              props == task[t].reply[1]
              units2 == Put(units, key, Unit(key, props))
          IN  /\ task[t].reply # <<>>
              /\ properties' = Put(properties, key, props)
              /\ units' = units2
              /\ IF task[t].i < Len(task[t].keys)
                 THEN Step(t, [task[t] EXCEPT !.i = @ + 1, !.pc = "LoadUnit",
                                              !.reply = <<>>])
                 ELSE Finish(t, [k \in DOMAIN units2 |-> to_dict(units2[k])])
       \/ FailStep(t) /\ UNCHANGED <<units, properties>>
    /\ UNCHANGED <<units_path, subscribed, wamp_session, sys, mgr_subscribed, attached, missed>>

(***************************************************************************)
(* refresh_unit_properties(unit_keys): for every key, getRemoteObject of   *)
(* self.units_path[unit_key] (KeyError for a key without a path), GetAll,  *)
(* then store.                                                             *)
(***************************************************************************)
refresh_unit_properties_getRemoteObject(t) ==
    /\ Running
    /\ task[t].proc = "refresh_unit_properties" /\ task[t].pc = "getRemoteObject"
    /\ \/ Step(t, [task[t] EXCEPT !.pc = "GetAll"])
       \/ FailStep(t)
    /\ UNCHANGED <<mirror, subscribed, wamp_session, sys, mgr_subscribed, attached, missed>>

\* query's reply: {k: self.properties[k] for k in unit_keys if k in self.properties}
QueryResult(keys, props) ==
    [k \in Range(keys) \cap DOMAIN props |-> props[k]]

refresh_unit_properties_GetAll(t) ==
    /\ Running
    /\ task[t].proc = "refresh_unit_properties" /\ task[t].pc = "GetAll"
    /\ \/ LET key == CurKey(t)
              props == task[t].reply[1]
              properties2 == StoreProps(key, props)
              n == task[t].i + 1
          IN  /\ task[t].reply # <<>>
              /\ properties' = properties2
              /\ IF n <= Len(task[t].keys)
                 THEN IF task[t].keys[n] \in DOMAIN units_path
                      THEN Step(t, [task[t] EXCEPT !.i = n, !.pc = "getRemoteObject",
                                                   !.reply = <<>>])
                      ELSE /\ Return(t, [task[t] EXCEPT !.i = n], "error", "KeyError", None)
                           /\ UNCHANGED <<unit_key, wamp_started>>
                 ELSE Finish(t, QueryResult(task[t].keys, properties2))
       \/ FailStep(t) /\ UNCHANGED properties
    /\ UNCHANGED <<units, units_path, subscribed, wamp_session, sys, mgr_subscribed,
                   attached, missed>>

(***************************************************************************)
(* subscribe_props_units: for every (unit_key, unit_path) of units_path,   *)
(* getRemoteObject, then notifyOnSignal('PropertiesChanged', unit_changed).*)
(* unit_changed is a closure over the loop variable unit_key.              *)
(***************************************************************************)
subscribe_props_units_getRemoteObject ==
    /\ Running
    /\ task[0].proc = "subscribe_props_units" /\ task[0].pc = "getRemoteObject"
    /\ \/ /\ subscribed' = subscribed \cup {units_path[CurKey(0)]}
          /\ IF task[0].i < Len(task[0].keys)
             THEN /\ task' = [task EXCEPT ![0].i = @ + 1]
                  /\ unit_key' = task[0].keys[task[0].i + 1]
                  /\ ev' = NoEvent
                  /\ qhist' = qhist
                  /\ UNCHANGED wamp_started
             ELSE MainEnter(StageAfter("subscribe_props_units"))
       \/ FailStep(0) /\ UNCHANGED subscribed
    /\ UNCHANGED <<mirror, wamp_session, sys, mgr_subscribed, attached, missed>>

(***************************************************************************)
(* Environment: the manager changes a unit; the bus delivers a signal.     *)
(***************************************************************************)
\* An undisturbed run of query() ends here: a signal or a manager change.
Disturbed == [t \in DOMAIN task |-> [task[t] EXCEPT !.clean = FALSE]]

SystemdChange(k, d) ==
    /\ Running
    /\ Update(sys[k], d) # sys[k]
    /\ sys' = [sys EXCEPT ![k] = Update(@, d)]
    /\ task' = Disturbed
    /\ qhist' = <<>>
    /\ ev' = NoEvent
    /\ UNCHANGED <<mirror, unit_key, subscribed, wamp_session, mgr_subscribed,
                   wamp_started, attached, missed>>

on_unit_changed_ungated(unit, props) ==
    <<[topic |-> "sjw.unit." \o unit, payload |-> props]>>

\* WAMPApplication.on_unit_changed(unit, props): the publications it makes.
on_unit_changed(unit, props) ==
    IF wamp_session = None
    THEN <<>>
    ELSE <<[topic |-> "sjw.unit." \o unit, payload |-> props]>>

\* self.wamp_session.publish(...) raises (the transport is gone and the leave
\* event has not been handled yet, or the payload cannot be sent): no handler
\* is between the call and the caller of unit_changed.
PublishRaised == [type |-> "raised", error |-> "TransportLost", in |-> "unit_changed"]

\* PropertiesChanged(interface, changed, invalidated) arrives on the object at
\* `path`: the callback registered there runs.  Its unit_key is the closure
\* cell of subscribe_props_units, read when the callback runs.  The merge into
\* properties comes first, then on_unit_changed.
unit_changed(path, changed) ==
    /\ Running
    /\ path \in subscribed
    /\ properties' =
         Put(properties, unit_key,
             Update(IF unit_key \in DOMAIN properties THEN properties[unit_key]
                    ELSE EmptyDict, changed))
    /\ \/ ev' = LET published == on_unit_changed(unit_key, changed)
                IN  IF published = <<>> THEN [type |-> "dropped"]
                    ELSE [type |-> "publish", published |-> published]
       \/ /\ on_unit_changed(unit_key, changed) # <<>>
          /\ ev' = PublishRaised
    /\ missed' = (missed \/ on_unit_changed(unit_key, changed) = <<>>)
    /\ task' = Disturbed
    /\ qhist' = <<>>
    /\ UNCHANGED <<units, units_path, unit_key, subscribed, wamp_session, sys,
                   mgr_subscribed, wamp_started, attached>>

\* A signal with payload d on the object of unit k.
Signal(k, d) == unit_changed(PathOf(units_name[k]), d)

(***************************************************************************)
(* The WAMP session: join and leave events of the component.               *)
(***************************************************************************)
initialize_replaying ==
    /\ Running /\ wamp_started /\ ~attached
    /\ wamp_session' = "session"
    /\ attached' = TRUE
    /\ ev' = IF missed
             THEN [type |-> "publish",
                   published |-> <<[topic |-> "sjw.unit." \o unit_key,
                                    payload |-> properties[unit_key]]>>]
             ELSE NoEvent
    /\ UNCHANGED <<task, mirror, unit_key, subscribed, sys, mgr_subscribed,
                   wamp_started, missed, qhist>>

\* on 'join': wamp_session = session, then the six procedures are registered
\* (the registrations live in the router).
initialize ==
    /\ Running /\ wamp_started /\ ~attached
    /\ wamp_session' = "session"
    /\ attached' = TRUE
    /\ ev' = NoEvent
    /\ UNCHANGED <<task, mirror, unit_key, subscribed, sys, mgr_subscribed,
                   wamp_started, missed, qhist>>

uninitialize_cancelling ==
    /\ Running /\ attached
    /\ wamp_session' = None
    /\ attached' = FALSE
    /\ missed' = FALSE
    /\ ev' = NoEvent
    /\ task' = [t \in DOMAIN task |-> IF t = 0 THEN task[t] ELSE Idle]
    /\ UNCHANGED <<mirror, unit_key, subscribed, sys, mgr_subscribed,
                   wamp_started, qhist>>

\* on 'leave': wamp_session = None.  Calls in flight go on.
uninitialize ==
    /\ Running /\ attached
    /\ wamp_session' = None
    /\ attached' = FALSE
    /\ missed' = FALSE
    /\ ev' = NoEvent
    /\ UNCHANGED <<task, mirror, unit_key, subscribed, sys, mgr_subscribed,
                   wamp_started, qhist>>

(***************************************************************************)
(* The remote procedures.  A call runs synchronously up to its first await.*)
(***************************************************************************)
\* Frames are interchangeable: a call takes the lowest free one.
Callable(t) ==
    /\ Running /\ attached /\ task[t] = Idle
    /\ \A u \in DOMAIN task : (0 < u /\ u < t) => task[u] # Idle

list_units(t) ==
    /\ Callable(t)
    /\ Step(t, [Idle EXCEPT !.op = "list_units", !.proc = "refresh_units",
                            !.pc = "LoadUnit", !.keys = KeyOrder, !.i = 1])
    /\ UNCHANGED <<mirror, subscribed, wamp_session, sys, mgr_subscribed, attached, missed>>

query_defaulting(t, unit_keys) ==
    /\ Callable(t)
    /\ LET keys == IF unit_keys = <<>> THEN DictOrder(units_path) ELSE unit_keys
           tr == [Idle EXCEPT !.op = "query", !.args = unit_keys,
                              !.proc = "refresh_unit_properties", !.keys = keys,
                              !.i = 1, !.clean = TRUE]
       IN  IF keys = <<>>
           THEN Return(t, tr, "ok", None, EmptyDict) /\ UNCHANGED properties
           ELSE IF keys[1] \notin DOMAIN units_path
           THEN /\ properties' = Put(properties, keys[1], EmptyDict)
                /\ Return(t, tr, "ok", None, EmptyDict)
           ELSE /\ task' = [task EXCEPT ![t] = [tr EXCEPT !.pc = "getRemoteObject"]]
                /\ ev' = NoEvent
                /\ qhist' = qhist
                /\ UNCHANGED properties
    /\ UNCHANGED <<units, units_path, unit_key, subscribed, wamp_session, sys,
                   mgr_subscribed, wamp_started, attached, missed>>

query(t, unit_keys) ==
    /\ Callable(t)
    /\ LET keys == IF unit_keys = <<>> THEN DictOrder(units_path) ELSE unit_keys
           tr == [Idle EXCEPT !.op = "query", !.args = unit_keys,
                              !.proc = "refresh_unit_properties", !.keys = keys,
                              !.i = 1, !.clean = TRUE]
       IN  /\ IF keys = <<>>
              THEN Return(t, tr, "ok", None, EmptyDict)
              ELSE IF keys[1] \notin DOMAIN units_path
              THEN Return(t, tr, "error", "KeyError", None)
              ELSE /\ task' = [task EXCEPT ![t] = [tr EXCEPT !.pc = "getRemoteObject"]]
                   /\ ev' = NoEvent
                   /\ qhist' = qhist
    /\ UNCHANGED <<mirror, unit_key, subscribed, wamp_session, sys, mgr_subscribed,
                   wamp_started, attached, missed>>

resolve_with_default(key) ==
    IF key \in DOMAIN units_name THEN units_name[key] ELSE key

\* unit_name = self.units_name[unit_key]; None stands for the KeyError.
resolve(key) == IF key \in DOMAIN units_name THEN units_name[key] ELSE None

\* The first bus call of start, stop, enable and disable.
BusCall(op, unit_name) ==
    CASE op = "start" -> [method |-> "StartUnit", args |-> <<unit_name, "replace">>]
      [] op = "stop" -> [method |-> "StopUnit", args |-> <<unit_name, "replace">>]
      [] op = "enable" ->
           [method |-> "EnableUnitFiles", args |-> <<<<unit_name>>, FALSE, TRUE>>]
      [] op = "disable" ->
           [method |-> "DisableUnitFiles", args |-> <<<<unit_name>>, FALSE>>]

\* start/stop/enable/disable(unit_key) up to the first await: the lookup in
\* units_name, then the bus call is issued.
control(t, op, key) ==
    /\ Callable(t)
    /\ LET unit_name == resolve(key)
           tr == [Idle EXCEPT !.op = op, !.args = <<key>>, !.proc = op]
       IN  IF unit_name = None
           THEN Return(t, tr, "error", "KeyError", None)
           ELSE /\ task' = [task EXCEPT ![t] =
                      [tr EXCEPT !.pc = BusCall(op, unit_name).method,
                                 !.calls = <<BusCall(op, unit_name)>>]]
                /\ ev' = NoEvent
                /\ qhist' = qhist
    /\ UNCHANGED <<mirror, unit_key, subscribed, wamp_session, sys, mgr_subscribed,
                   wamp_started, attached, missed>>

start(t, key) == control(t, "start", key)
stop(t, key) == control(t, "stop", key)
enable(t, key) == control(t, "enable", key)
disable(t, key) == control(t, "disable", key)

\* result = await callRemote('StartUnit' | 'StopUnit', ...); return result
StartStop_reply(t) ==
    /\ Running
    /\ task[t].pc \in {"StartUnit", "StopUnit"}
    /\ \/ \E r \in Replies :
            Return(t, [task[t] EXCEPT !.result = r, !.mgr = r], "ok", None, r)
       \/ Fail(t)
    /\ UNCHANGED <<mirror, unit_key, subscribed, wamp_session, sys, mgr_subscribed,
                   wamp_started, attached, missed>>

\* result = await callRemote('EnableUnitFiles' | 'DisableUnitFiles', ...);
\* then callRemote('Reload') is issued.
UnitFiles_reply(t) ==
    /\ Running
    /\ task[t].pc \in {"EnableUnitFiles", "DisableUnitFiles"}
    /\ \/ \E r \in Replies :
            /\ task' = [task EXCEPT ![t] =
                  [@ EXCEPT !.result = r, !.mgr = r, !.pc = "Reload",
                            !.calls = Append(@, [method |-> "Reload", args |-> <<>>])]]
            /\ ev' = NoEvent
            /\ qhist' = qhist
       \/ Fail(t)
    /\ UNCHANGED <<mirror, unit_key, subscribed, wamp_session, sys, mgr_subscribed,
                   wamp_started, attached, missed>>

Reload_reply_refreshing(t) ==
    /\ Running
    /\ task[t].pc = "Reload"
    /\ \/ /\ Return(t, task[t], "ok", None, task[t].result)
          /\ properties' = Put(properties, task[t].args[1], sys[task[t].args[1]])
       \/ Fail(t) /\ UNCHANGED properties
    /\ UNCHANGED <<units, units_path, unit_key, subscribed, wamp_session, sys,
                   mgr_subscribed, wamp_started, attached, missed>>

\* await callRemote('Reload'); return result
Reload_reply(t) ==
    /\ Running
    /\ task[t].pc = "Reload"
    /\ \/ Return(t, task[t], "ok", None, task[t].result)
       \/ Fail(t)
    /\ UNCHANGED <<mirror, unit_key, subscribed, wamp_session, sys, mgr_subscribed,
                   wamp_started, attached, missed>>

Next ==
    \/ connect
    \/ getSystemdObject
    \/ Subscribe
    \/ \E t \in 0..MaxCalls : refresh_units_LoadUnit(t)
    \/ \E t \in 0..MaxCalls : refresh_units_getRemoteObject(t)
    \/ \E t \in 0..MaxCalls : GetAll_served(t)
    \/ \E t \in 0..MaxCalls : refresh_units_GetAll(t)
    \/ \E t \in 0..MaxCalls : refresh_unit_properties_getRemoteObject(t)
    \/ \E t \in 0..MaxCalls : refresh_unit_properties_GetAll(t)
    \/ subscribe_props_units_getRemoteObject
    \/ \E k \in Keys, d \in SysDeltas : SystemdChange(k, d)
    \/ \E k \in Keys, d \in Deltas : Signal(k, d)
    \/ initialize
    \/ uninitialize
    \/ \E t \in Calls : list_units(t)
    \/ \E t \in Calls, a \in QueryArgs : query(t, a)
    \/ \E t \in Calls, k \in ArgKeys : start(t, k)
    \/ \E t \in Calls, k \in ArgKeys : stop(t, k)
    \/ \E t \in Calls, k \in ArgKeys : enable(t, k)
    \/ \E t \in Calls, k \in ArgKeys : disable(t, k)
    \/ \E t \in Calls : StartStop_reply(t)
    \/ \E t \in Calls : UnitFiles_reply(t)
    \/ \E t \in Calls : Reload_reply(t)

Spec == Init /\ [][Next]_vars

(***************************************************************************)
(* Concurrent remote calls: start-up, joins and leaves, and list_units and *)
(* query calls of ConcurrentCalls callers at once, with the manager's      *)
(* state at rest.                                                          *)
(***************************************************************************)
InitConcurrent == InitCalls(ConcurrentCalls)

NextConcurrent ==
    \/ connect
    \/ getSystemdObject
    \/ Subscribe
    \/ \E t \in 0..ConcurrentCalls : refresh_units_LoadUnit(t)
    \/ \E t \in 0..ConcurrentCalls : refresh_units_getRemoteObject(t)
    \/ \E t \in 0..ConcurrentCalls : GetAll_served(t)
    \/ \E t \in 0..ConcurrentCalls : refresh_units_GetAll(t)
    \/ \E t \in 0..ConcurrentCalls : refresh_unit_properties_getRemoteObject(t)
    \/ \E t \in 0..ConcurrentCalls : refresh_unit_properties_GetAll(t)
    \/ subscribe_props_units_getRemoteObject
    \/ initialize
    \/ uninitialize
    \/ \E t \in 1..ConcurrentCalls : list_units(t)
    \/ \E t \in 1..ConcurrentCalls, a \in QueryArgs : query(t, a)

SpecConcurrent == InitConcurrent /\ [][NextConcurrent]_vars

(***************************************************************************)
(* The same calls when bus calls about one unit may never return: every    *)
(* bus round trip of a remote call about another unit ends, sooner or      *)
(* later, with a reply or an error.                                        *)
(***************************************************************************)
StalledKey == KeyOrder[1]

\* The bus round trip task t is suspended on ends (reply or error).
BusReturn(t) ==
    \/ refresh_units_LoadUnit(t)
    \/ refresh_units_getRemoteObject(t)
    \/ GetAll_served(t)
    \/ refresh_units_GetAll(t)
    \/ refresh_unit_properties_getRemoteObject(t)
    \/ refresh_unit_properties_GetAll(t)

BusReturnsExceptStalled ==
    \A t \in 1..ConcurrentCalls :
       WF_vars(/\ task[t].i \in 1..Len(task[t].keys)
               /\ CurKey(t) # StalledKey
               /\ BusReturn(t))

SpecStalled == SpecConcurrent /\ BusReturnsExceptStalled

\* The same calls when the bus answers every call sooner or later.
BusReturns == \A t \in 1..ConcurrentCalls : WF_vars(BusReturn(t))

SpecReturning == SpecConcurrent /\ BusReturns

(***************************************************************************)
(* Properties.                                                             *)
(***************************************************************************)
AllPaths == {PathOf(units_name[k]) : k \in Keys}
Populated(k) == k \in DOMAIN units /\ k \in DOMAIN units_path /\ k \in DOMAIN properties
Topic(k) == "sjw.unit." \o k

\* C1: no publication is made while the session is detached: the session
\* handle is held only between a join and the next leave, and a signal
\* delivered while detached publishes nothing.
C1_NoPublishWhileDetached ==
    /\ (wamp_session # None) => attached
    /\ (ev.type = "publish") => attached

C1_Witness ==
    /\ wamp_started /\ ~attached
    /\ ev.type = "dropped"

\* C2: a signal delivered on the object of unit k while attached makes exactly
\* one publication, on the topic of k, carrying the signal's delta (the case
\* of a publish call that raises is C17's).
C2_OnePublicationOnOwnTopic ==
    [][\A k \in Keys, d \in Deltas :
         (Signal(k, d) /\ attached /\ ev' # PublishRaised) =>
            /\ ev'.type = "publish"
            /\ ev'.published = <<[topic |-> Topic(k), payload |-> d]>>]_vars

\* C3: a signal delivered on the object of unit k with delta d is merged into
\* properties[k]: d's values overwrite, k's other properties and every other
\* key's property map stay as they were.
C3_DeltaMergedIntoOwnKey ==
    [][\A k \in Keys, d \in Deltas :
         Signal(k, d) =>
            /\ k \in DOMAIN properties
            /\ properties' = [properties EXCEPT ![k] = Update(@, d)]]_vars

\* C4: a query naming a key outside the catalog does not end in an error: the
\* unknown keys are left out of the reply (only a failed bus call is an error).
C4_QueryOmitsUnknownKeys ==
    (ev.type = "return" /\ ev.op = "query" /\ ev.error # "BusCallFailed") =>
        /\ ev.outcome = "ok"
        /\ DOMAIN ev.result = (IF ev.args = <<>> THEN Keys ELSE Range(ev.args) \cap Keys)

\* C5: start, stop, enable and disable with a key outside the catalog end in
\* an error without any call to the manager and without touching the mirror;
\* with a catalog key they call the manager for the catalog's service name of
\* that key and return the manager's result as it is.
C5_ExpectedMethod ==
    [start |-> "StartUnit", stop |-> "StopUnit", enable |-> "EnableUnitFiles",
     disable |-> "DisableUnitFiles"]

C5_CallsFor(op, key, calls) ==
    /\ Len(calls) >= 1
    /\ calls[1].method = C5_ExpectedMethod[op]
    /\ IF op \in {"start", "stop"}
       THEN calls[1].args[1] = key \o ".service"
       ELSE calls[1].args[1] = <<key \o ".service">>
    /\ \A n \in 2..Len(calls) : calls[n].method = "Reload" /\ op \in {"enable", "disable"}

C5_State ==
    /\ \A t \in Calls : task[t].op \in ControlOps =>
          /\ task[t].args[1] \in Keys
          /\ C5_CallsFor(task[t].op, task[t].args[1], task[t].calls)
    /\ (ev.type = "return" /\ ev.op \in ControlOps) =>
          IF ev.args[1] \notin Keys
          THEN ev.outcome = "error" /\ ev.error = "KeyError" /\ ev.calls = <<>>
          ELSE /\ C5_CallsFor(ev.op, ev.args[1], ev.calls)
               /\ ev.outcome = "ok" => (ev.result = ev.mgr /\ ev.result \in Replies)

\* C5, as one formula: the state part in every state, and the mirror left as
\* it was by every call that ends in the KeyError.
C5_ControlOpsResolveKey ==
    /\ []C5_State
    /\ [][(ev'.type = "return" /\ ev'.op \in ControlOps /\ ev'.error = "KeyError")
            => UNCHANGED mirror]_vars

C5_Witness ==
    /\ ev.type = "return" /\ ev.op = "start" /\ ev.args = <<"zz">>
    /\ ev.outcome = "error"

C5_WitnessKnownKey ==
    /\ ev.type = "return" /\ ev.op = "enable" /\ ev.args = <<"a">>
    /\ ev.outcome = "ok" /\ Len(ev.calls) = 2

\* C6: in refresh_units, a failed LoadUnit or GetAll for one key fails that
\* key only: every other catalog key is still loaded, fetched and stored.
C6_PartialFailureKeepsOtherKeys ==
    /\ (task[0].pc = "failed" /\ task[0].proc = "refresh_units") =>
          \A k \in Keys \ {CurKey(0)} : Populated(k)
    /\ (ev.type = "return" /\ ev.op = "list_units" /\ ev.outcome = "error") =>
          ev.stored = Keys \ {ev.key}

\* C7: once populated, the snapshot of every catalog key k has the catalog's
\* service name of k as its name, in every later state: re-population,
\* queries and signals (also those carrying identity properties) keep it.
PopulateDone ==
    \/ task[0].proc \in {"refresh_unit_properties", "subscribe_props_units"}
    \/ task[0].pc = "wamp_start"

C7_SnapshotNameIsCatalogName ==
    /\ \A k \in DOMAIN units : k \in Keys /\ units[k].name = k \o ".service"
    /\ PopulateDone => \A k \in Keys : k \in DOMAIN units

C7_Witness ==
    /\ wamp_started
    /\ ev.type = "publish" /\ ev.published[1].payload = [Id |-> "alias.service"]
    /\ \E k \in Keys : properties[k].Id = "alias.service" /\ units[k].name = k \o ".service"

\* C8: start-up runs in order: Subscribe completes before any unit is loaded,
\* every catalog key is populated before the first per-unit subscription, all
\* per-unit subscriptions are made before the endpoint starts; so no attach,
\* remote call or publication happens before the mirror holds every key.
C8_StartupOrder ==
    /\ (task[0].proc = "refresh_units" \/ units_path # EmptyDict
        \/ units # EmptyDict \/ properties # EmptyDict) => mgr_subscribed
    /\ (task[0].proc = "subscribe_props_units" \/ subscribed # {}) =>
          \A k \in Keys : Populated(k)
    /\ wamp_started => subscribed = AllPaths
    /\ (\/ attached
        \/ wamp_session # None
        \/ \E t \in Calls : task[t] # Idle
        \/ ev.type = "return"
        \/ ev.type = "publish") =>
          (wamp_started /\ \A k \in Keys : Populated(k))

C8_Witness ==
    /\ ev.type = "publish"
    /\ \E t \in Calls : task[t].op = "list_units"

\* C9: no enable or disable ends, by a reply or by an error, with its
\* EnableUnitFiles/DisableUnitFiles call issued and no Reload call issued.
C9_ReloadAlwaysFollows ==
    (ev.type = "return" /\ ev.op \in {"enable", "disable"} /\ ev.calls # <<>>) =>
        \E n \in 1..Len(ev.calls) : ev.calls[n].method = "Reload"

\* C10: two query() calls without keys in a row, with no signal delivered and
\* no change of the manager's state from the first call to the second reply,
\* give the same reply: all tracked keys, with the same property maps.
C10_QueryIdempotent ==
    /\ \A n \in 1..Len(qhist) : DOMAIN qhist[n] = Keys
    /\ Len(qhist) = 2 => qhist[1] = qhist[2]

C10_Witness ==
    /\ Len(qhist) = 2
    /\ \E k \in Keys : qhist[2][k].ActiveState = "active"

\* C11: a signal delivered while detached is dropped for publication and not
\* kept for later: it publishes nothing and its delta is still merged into the
\* mirror; every publication is made by the step that delivers a signal while
\* the session is held, and carries that signal's delta, so neither the attach
\* nor any later step publishes a delta that was delivered while detached.
C11_NoReplayOfMissedSignals ==
    [][/\ \A k \in Keys, d \in Deltas :
            (wamp_session = None /\ Signal(k, d)) =>
               /\ ev'.type = "dropped"
               /\ \A n \in DOMAIN d : properties'[unit_key][n] = d[n]
       /\ (ev'.type = "publish") =>
            \E k \in Keys, d \in Deltas :
               /\ Signal(k, d) /\ wamp_session # None
               /\ Len(ev'.published) = 1 /\ ev'.published[1].payload = d]_vars

\* A signal was dropped while detached, the session attached again, and a
\* later signal is published.
C11_Witness ==
    /\ attached /\ missed
    /\ ev.type = "publish"

\* C12: in every reachable state every key of the mirror (units, units_path,
\* properties) is a catalog key: no remote call with an arbitrary key argument
\* (query, start, stop, enable, disable) and no signal adds an entry for a key
\* outside the catalog.
C12_MirrorKeysInCatalog ==
    /\ DOMAIN units \subseteq DOMAIN units_name
    /\ DOMAIN units_path \subseteq DOMAIN units_name
    /\ DOMAIN properties \subseteq DOMAIN units_name

\* A query naming a catalog key and then an unknown key has ended, after a
\* signal was merged (properties of "b" hold a value only a signal brings).
C12_Witness ==
    /\ ev.type = "return" /\ ev.op = "query" /\ ev.args = <<"a", "zz">>
    /\ ev.stored = {"a"}
    /\ properties["b"].Id = "alias.service"

\* C13: a fetch never clobbers a newer value: when a signal's delta has been
\* merged into the entry of k while a GetAll for k was in flight whose reply
\* holds the manager's state from before that signal, storing that reply does
\* not put the older values in place of the signal's newer ones.
\* The entry of k holds the manager's present state of k.
C13_Current(k, props) ==
    /\ props.ActiveState = sys[k].ActiveState
    /\ props.SubState = sys[k].SubState

\* C13, as a formula: a store that follows the merge of a signal into the
\* same key, and finds the entry at the manager's present state while the
\* reply is older, leaves the entry at the manager's present state.
C13_FetchKeepsNewerValues ==
    [][\A t \in 0..MaxCalls :
         (/\ task[t].pc = "GetAll" /\ task[t].reply # <<>>
          /\ ev.type \in {"publish", "dropped"} /\ unit_key = CurKey(t)
          /\ C13_Current(CurKey(t), properties[CurKey(t)])
          /\ ~C13_Current(CurKey(t), task[t].reply[1])
          /\ refresh_unit_properties_GetAll(t) \/ refresh_units_GetAll(t)
          /\ properties' # properties)
         => C13_Current(CurKey(t), properties'[CurKey(t)])]_vars

\* C14: every write of the mirror (the merge of a signal's delta, the store
\* of a fetch result) is one indivisible step, also with two signals for a
\* key in a row while a query for that key is in flight: no reachable state
\* holds a property map with only a part of one delta or of one fetch result.
\* A whole map: the state fields go together, as the manager has them.
C14_StatePairs ==
    {<<InitialProps(k).ActiveState, InitialProps(k).SubState>> : k \in Keys}
       \cup {<<d.ActiveState, d.SubState>> : d \in SysDeltas}

C14_Whole(p) ==
    /\ ("ActiveState" \in DOMAIN p) = ("SubState" \in DOMAIN p)
    /\ "ActiveState" \in DOMAIN p => <<p.ActiveState, p.SubState>> \in C14_StatePairs

\* A step that changes the entry of k puts there one whole delta merged into
\* the old map, or one whole reply.
C14_WholeStep ==
    \A k \in DOMAIN properties' :
       (k \notin DOMAIN properties \/ properties'[k] # properties[k]) =>
          \/ \E d \in Deltas :
                properties'[k] = Update(IF k \in DOMAIN properties THEN properties[k]
                                        ELSE EmptyDict, d)
          \/ \E t \in 0..MaxCalls :
                task[t].reply # <<>> /\ properties'[k] = task[t].reply[1]

\* C14, as one formula: every entry is whole in every state, and every step
\* that changes an entry is one whole merge or one whole store.
C14_MirrorWritesIndivisible ==
    /\ [](\A k \in DOMAIN properties : C14_Whole(properties[k]))
    /\ [][properties' # properties => C14_WholeStep]_vars

\* A query is waiting for the reply of GetAll for "b"; a signal carrying the
\* unit's name and then a signal carrying its state have been merged.
C14_Witness ==
    /\ \E t \in Calls :
          /\ task[t].op = "query" /\ task[t].pc = "GetAll" /\ task[t].reply # <<>>
          /\ CurKey(t) = "b"
    /\ ev.type = "publish"
    /\ ev.published[1].payload = [ActiveState |-> "active", SubState |-> "running"]
    /\ properties["b"].Id = "alias.service" /\ properties["b"].ActiveState = "active"

\* C15: in every reachable state, for each unit key at most one GetAll issued
\* by the population and refresh logic is in flight, also when several
\* list_units and query calls for the same key run at once.
C15_InFlight(k) ==
    {t \in DOMAIN task : task[t].pc = "GetAll" /\ CurKey(t) = k}

\* C15, as a formula: no key has two GetAll calls in flight.
C15_OneGetAllPerKey ==
    \A k \in Keys : Cardinality(C15_InFlight(k)) <= 1

\* C16: the snapshot of a key follows the signals of that key: once a signal
\* changing ActiveState and SubState of k has been merged into the entry of k,
\* the snapshot that list_units flattens for k carries the signal's values.
C16_SnapshotFollowsSignal ==
    [][\A k \in Keys, d \in SysDeltas :
         (unit_key = k /\ k \in DOMAIN units /\ Signal(k, d)) =>
            /\ units'[k].active = d.ActiveState
            /\ units'[k].sub = d.SubState]_vars

\* C17: a publish call that fails while a signal is handled is caught and
\* counts as nothing published: no exception leaves the signal handler, and
\* the signal's delta is merged into the mirror all the same.
C17_PublishFailureCaught ==
    [][\A k \in Keys, d \in Deltas :
         (wamp_session # None /\ Signal(k, d)) =>
            /\ ev'.type # "raised"
            /\ \A n \in DOMAIN d : properties'[unit_key][n] = d[n]]_vars

\* C18: keys are independent during population and querying: the fetch and
\* store of a key never waits on another key, so when the bus calls about the
\* stalled key never return, a call that covers another key still fetches
\* and stores that key (or ends with that key's error).
C18_Fetched(t, k) ==
    \/ task[t] = Idle
    \/ \E n \in 1..(task[t].i - 1) : task[t].keys[n] = k

\* C18, as a formula: a call that covers a key other than the stalled one
\* gets that key fetched and stored, or ends.
C18_KeysIndependent ==
    \A t \in 1..ConcurrentCalls : \A k \in Keys \ {StalledKey} :
       (k \in Range(task[t].keys)) ~> C18_Fetched(t, k)

\* C19: a detach does not cancel remote calls in flight: the leave changes no
\* call frame and no mirror entry; a list_units or query call suspended on a
\* bus round trip goes on only by its own steps, which store the fetched
\* properties as always; and as the bus answers, the call runs to its end
\* also when the session has gone.
C19_Fetching(t) == task[t].op \in {"list_units", "query"}

\* C19, as one formula: the leave step, the steps of a fetching call, and the
\* call's completion once the session has gone.
C19_DetachKeepsCalls ==
    /\ [][uninitialize => UNCHANGED <<task, mirror>>]_vars
    /\ [][\A t \in 1..ConcurrentCalls :
            (C19_Fetching(t) /\ task'[t] # task[t]) => BusReturn(t)]_vars
    /\ \A t \in 1..ConcurrentCalls :
          (~attached /\ C19_Fetching(t)) ~> (task[t] = Idle)

\* A list_units call, made while attached, has stored every key and ended
\* after the session detached.
C19_Witness ==
    /\ ~attached
    /\ ev.type = "return" /\ ev.op = "list_units" /\ ev.outcome = "ok"
    /\ ev.stored = Keys

\* C20: start, stop, enable and disable never change the bridge's own state:
\* every step of such a call -- the call, each bus reply, a success or a
\* failure -- leaves units, units_path, properties and the session reference
\* as they were (signals and fetches are other steps).
C20_ControlStep ==
    \/ \E t \in Calls :
          /\ task'[t] # task[t]
          /\ task[t].op \in ControlOps \/ task'[t].op \in ControlOps
    \/ ev'.type = "return" /\ ev'.op \in ControlOps

\* C20, as a formula: a step of a start, stop, enable or disable call changes
\* neither the mirror nor the session reference.
C20_ControlOpsKeepState ==
    [][C20_ControlStep => UNCHANGED <<mirror, wamp_session>>]_vars

\* An enable call has failed at its Reload, after the unit files call.
C20_Witness ==
    /\ ev.type = "return" /\ ev.op = "enable"
    /\ ev.error = "BusCallFailed" /\ Len(ev.calls) = 2
    /\ \A k \in Keys : Populated(k)

====
